---- MODULE Spec2Model ----
(***************************************************************************)
(* Model of the TTL cache of cache.go: a concurrent map of CachedItem, a   *)
(* sweeper goroutine driven by a ticker of period ttl, and the foreground  *)
(* operations Set, Get, Delete, Clear and StopCleanup.                     *)
(*                                                                         *)
(* The haxmap store is used through Set/Get/Del, each one atomic step on   *)
(* one key, and through ForEach, a traversal in a fixed key order that     *)
(* reads the map afresh at every step (entries inserted ahead of the       *)
(* cursor are visited, entries inserted behind it are missed).             *)
(***************************************************************************)
EXTENDS Integers, FiniteSets, Sequences, TLC

\* ---------------------------------------------------------------- bounds
\* Last instant of the clock; the clock stops advancing there.
MaxTime == 3
\* NewCache is called with a ttl drawn from 1..MaxTTL.
MaxTTL == 2

\* The concurrent-access test starts 1..MaxGoroutines setters and as many
\* deleters (numGoroutines in the test).
MaxGoroutines == 2

\* Keys of the map, in the order ForEach walks the list; 0 is the list head.
Keys == {1, 2}
\* Values; zero is the zero value of V (var zero V).
zero == 0
Values == {zero, 1}
\* Foreground callers that may have a Clear in flight (Set, Get, Delete and
\* StopCleanup are single steps, so any number of callers interleave them).
Callers == {1}

VARIABLES
    cache,        \* c.cache: the keys present, each with its *CachedItem
    ttl,          \* c.ttl
    stopCleanup,  \* c.stopCleanup: the channel, "open" or "closed"
    clock,        \* what time.Now() returns
    ticker,       \* the sweeper's time.Ticker: next firing and the buffered tick
    sweeper,      \* the goroutine running startCleanupRoutine
    clearing,     \* per caller, the Clear traversal in flight (or idle)
    ret,          \* the foreground call that returned in the step just taken
    panicked,     \* the process died of a panic (close of closed channel)
    stops,        \* history: number of StopCleanup calls made
    quiet,        \* history: per caller, no Set ran since its last Clear started
    pending       \* calls a scenario's goroutines have still to make

vars == <<cache, ttl, stopCleanup, clock, ticker, sweeper, clearing, ret,
          panicked, stops, quiet, pending>>

\* ------------------------------------------------------------ the store
\* Mutant of Put: an existing key keeps its old item.
PutIfAbsent(m, key, item) ==
    [k \in (DOMAIN m) \cup {key} |-> IF k \in DOMAIN m THEN m[k] ELSE item]

\* Mutant of Put: the write drops every other key.
PutOnly(m, key, item) == [k \in {key} |-> item]

\* haxmap.Set: insert or overwrite one key.
Put(m, key, item) ==
    [k \in (DOMAIN m) \cup {key} |-> IF k = key THEN item ELSE m[k]]

\* Mutant of Del: the removal takes the keys before the key with it.
DelThrough(m, key) == [k \in {j \in DOMAIN m : j > key} |-> m[k]]

\* haxmap.Del: remove one key, a no-op when it is absent.
Del(m, key) == [k \in (DOMAIN m) \ {key} |-> m[k]]

\* Mutant of NextKey: the traversal steps over the key next to the cursor.
NextKeySkip(m, cur) ==
    LET ahead == {k \in DOMAIN m : k > cur + 1}
    IN  IF ahead = {} THEN 0
        ELSE CHOOSE k \in ahead : \A j \in ahead : k <= j

\* ForEach's item.next(): the first key after the cursor that is in the map
\* now, 0 when the traversal is at the end of the list.
NextKey(m, cur) ==
    LET ahead == {k \in DOMAIN m : k > cur}
    IN  IF ahead = {} THEN 0
        ELSE CHOOSE k \in ahead : \A j \in ahead : k <= j

\* Mutant of CachedItem: the value is not stored.
CachedItemZero(value) == [Value |-> zero, CreatedTime |-> clock]

\* &CachedItem{Value: value, CreatedTime: time.Now()}
CachedItem(value) == [Value |-> value, CreatedTime |-> clock]

\* Mutant of Expired: an item whose age equals ttl counts as expired.
ExpiredAtTTL(now, item) == now - item.CreatedTime >= ttl

\* cleanup's test: now.Sub(value.CreatedTime) > c.ttl
Expired(now, item) == now - item.CreatedTime > ttl

\* Mutant of Get: expiry checked on read (an expired item reads as absent).
GetLazy(key) ==
    IF key \in DOMAIN cache /\ ~Expired(clock, cache[key])
    THEN <<cache[key].Value, TRUE>>
    ELSE <<zero, FALSE>>

\* Mutant of Get: a missing key is reported as found, with the zero value.
GetFound(key) ==
    IF key \in DOMAIN cache THEN <<cache[key].Value, TRUE>>
    ELSE <<zero, TRUE>>

\* Get's result for a key: (item.Value, true), or (zero, false).
Get(key) ==
    IF key \in DOMAIN cache THEN <<cache[key].Value, TRUE>>
    ELSE <<zero, FALSE>>

Idle == [pc |-> "idle", cur |-> 0]
NoItem == [Value |-> zero, CreatedTime |-> 0]
\* A returned call: its name, its key (for Clear, its caller), the value
\* written or read, and Get's found flag.
Ret(op, key, val, ok) == [op |-> op, key |-> key, val |-> val, ok |-> ok]
NoRet == Ret("", 0, zero, FALSE)

\* ----------------------------------------------------------------- Init
\* NewCache(ttl): an empty map, an open channel, the sweeper goroutine
\* launched and not yet scheduled.
NewCache ==
    /\ ttl \in 1..MaxTTL
    /\ cache = [k \in {} |-> NoItem]
    /\ stopCleanup = "open"
    /\ clock = 0
    /\ ticker = [on |-> FALSE, next |-> 0, C |-> FALSE]
    /\ sweeper = [pc |-> "start", now |-> 0, cur |-> 0, item |-> NoItem]
    /\ clearing = [c \in Callers |-> Idle]
    /\ ret = NoRet
    /\ panicked = FALSE
    /\ stops = 0
    /\ quiet = [c \in Callers |-> FALSE]

Init ==
    /\ NewCache
    /\ pending = [set |-> 0, del |-> 0, clear |-> 0]

\* ---------------------------------------------------- foreground calls
\* Mutant of Set: the write waits while a sweep pass is walking the map.
SetAfterPass(key, value) ==
    /\ sweeper.pc \notin {"next", "lambda"}
    /\ cache' = Put(cache, key, CachedItem(value))
    /\ quiet' = [c \in Callers |-> FALSE]
    /\ ret' = Ret("Set", key, value, FALSE)
    /\ UNCHANGED <<ttl, stopCleanup, clock, ticker, sweeper, clearing,
                   panicked, stops>>

\* Set(key, value): one store write of a fresh item.
Set(key, value) ==
    /\ cache' = Put(cache, key, CachedItem(value))
    /\ quiet' = [c \in Callers |-> FALSE]
    /\ ret' = Ret("Set", key, value, FALSE)
    /\ UNCHANGED <<ttl, stopCleanup, clock, ticker, sweeper, clearing,
                   panicked, stops>>

\* Mutant of GetCall: a read that finds an expired item removes it.
GetCallEvict(key) ==
    /\ cache' = IF key \in DOMAIN cache /\ Expired(clock, cache[key])
                THEN Del(cache, key)
                ELSE cache
    /\ ret' = Ret("Get", key, Get(key)[1], Get(key)[2])
    /\ UNCHANGED <<ttl, stopCleanup, clock, ticker, sweeper, clearing,
                   panicked, stops, quiet>>

\* Get(key): one store read; the caller receives Get(key).
GetCall(key) ==
    /\ ret' = Ret("Get", key, Get(key)[1], Get(key)[2])
    /\ UNCHANGED <<cache, ttl, stopCleanup, clock, ticker, sweeper, clearing,
                   panicked, stops, quiet>>

\* Mutant of Delete: only an expired item is removed.
DeleteIfExpired(key) ==
    /\ cache' = IF key \in DOMAIN cache /\ Expired(clock, cache[key])
                THEN Del(cache, key)
                ELSE cache
    /\ ret' = Ret("Delete", key, zero, FALSE)
    /\ UNCHANGED <<ttl, stopCleanup, clock, ticker, sweeper, clearing, panicked,
                   stops, quiet>>

\* Delete(key): one store removal.
Delete(key) ==
    /\ cache' = Del(cache, key)
    /\ ret' = Ret("Delete", key, zero, FALSE)
    /\ UNCHANGED <<ttl, stopCleanup, clock, ticker, sweeper, clearing,
                   panicked, stops, quiet>>

\* Clear(), entry: ForEach starts at the list head.
ClearStart(c) ==
    /\ clearing[c].pc = "idle"
    /\ clearing' = [clearing EXCEPT ![c] = [pc |-> "next", cur |-> 0]]
    /\ quiet' = [quiet EXCEPT ![c] = TRUE]
    /\ ret' = NoRet
    /\ UNCHANGED <<cache, ttl, stopCleanup, clock, ticker, sweeper, panicked,
                   stops>>

\* Clear(), ForEach moves to the next item that is in the map.
ClearNext(c) ==
    /\ clearing[c].pc = "next"
    /\ NextKey(cache, clearing[c].cur) # 0
    /\ clearing' = [clearing EXCEPT
                      ![c] = [pc |-> "lambda", cur |-> NextKey(cache, @.cur)]]
    /\ ret' = NoRet
    /\ UNCHANGED <<cache, ttl, stopCleanup, clock, ticker, sweeper, panicked,
                   stops, quiet>>

\* Clear(), the visitor: c.cache.Del(key) of the key being visited.
ClearLambda(c) ==
    /\ clearing[c].pc = "lambda"
    /\ cache' = Del(cache, clearing[c].cur)
    /\ clearing' = [clearing EXCEPT ![c].pc = "next"]
    /\ ret' = NoRet
    /\ UNCHANGED <<ttl, stopCleanup, clock, ticker, sweeper, panicked,
                   stops, quiet>>

\* Mutant of ClearReturn: Clear returns before the traversal is at its end.
ClearReturnEarly(c) ==
    /\ clearing[c].pc = "next"
    /\ clearing' = [clearing EXCEPT ![c] = Idle]
    /\ ret' = Ret("Clear", c, zero, FALSE)
    /\ UNCHANGED <<cache, ttl, stopCleanup, clock, ticker, sweeper, panicked,
                   stops, quiet>>

\* Clear(), ForEach finds the end of the list and Clear returns.
ClearReturn(c) ==
    /\ clearing[c].pc = "next"
    /\ NextKey(cache, clearing[c].cur) = 0
    /\ clearing' = [clearing EXCEPT ![c] = Idle]
    /\ ret' = Ret("Clear", c, zero, FALSE)
    /\ UNCHANGED <<cache, ttl, stopCleanup, clock, ticker, sweeper, panicked,
                   stops, quiet>>

\* Mutant of StopCleanup: a second call is ignored.
StopCleanupOnce ==
    /\ stops' = stops + 1
    /\ stopCleanup' = "closed"
    /\ ret' = Ret("StopCleanup", 0, zero, FALSE)
    /\ UNCHANGED <<cache, ttl, clock, ticker, sweeper, clearing, quiet,
                   panicked>>

\* StopCleanup(): close(c.stopCleanup); closing a closed channel panics.
StopCleanup ==
    /\ stops' = stops + 1
    /\ IF stopCleanup = "closed"
       THEN panicked' = TRUE /\ UNCHANGED stopCleanup
       ELSE stopCleanup' = "closed" /\ UNCHANGED panicked
    /\ ret' = Ret("StopCleanup", 0, zero, FALSE)
    /\ UNCHANGED <<cache, ttl, clock, ticker, sweeper, clearing, quiet>>

\* ---------------------------------------------------------- the sweeper
\* startCleanupRoutine, entry: ticker := time.NewTicker(c.ttl).
startCleanupRoutine ==
    /\ sweeper.pc = "start"
    /\ ticker' = [on |-> TRUE, next |-> clock + ttl, C |-> FALSE]
    /\ sweeper' = [sweeper EXCEPT !.pc = "select"]
    /\ ret' = NoRet
    /\ UNCHANGED <<cache, ttl, stopCleanup, clock, clearing, panicked,
                   stops, quiet>>

\* select, case <-ticker.C: the tick is received and cleanup captures now.
cleanup ==
    /\ sweeper.pc = "select"
    /\ ticker.C
    /\ ticker' = [ticker EXCEPT !.C = FALSE]
    /\ sweeper' = [pc |-> "next", now |-> clock, cur |-> 0, item |-> NoItem]
    /\ ret' = NoRet
    /\ UNCHANGED <<cache, ttl, stopCleanup, clock, clearing, panicked,
                   stops, quiet>>

\* cleanup, ForEach moves to the next item in the map and loads its value.
cleanupNext ==
    /\ sweeper.pc = "next"
    /\ NextKey(cache, sweeper.cur) # 0
    /\ sweeper' = [sweeper EXCEPT
                     !.pc = "lambda",
                     !.cur = NextKey(cache, sweeper.cur),
                     !.item = cache[NextKey(cache, sweeper.cur)]]
    /\ ret' = NoRet
    /\ UNCHANGED <<cache, ttl, stopCleanup, clock, ticker, clearing,
                   panicked, stops, quiet>>

\* cleanup, the visitor: delete the visited key when the loaded item expired.
cleanupLambda ==
    /\ sweeper.pc = "lambda"
    /\ cache' = IF Expired(sweeper.now, sweeper.item)
                THEN Del(cache, sweeper.cur)
                ELSE cache
    /\ sweeper' = [sweeper EXCEPT !.pc = "next", !.item = NoItem]
    /\ ret' = NoRet
    /\ UNCHANGED <<ttl, stopCleanup, clock, ticker, clearing, panicked,
                   stops, quiet>>

\* Mutant of cleanupReturn: the goroutine returns when its pass is over.
cleanupReturnExit ==
    /\ sweeper.pc = "next"
    /\ NextKey(cache, sweeper.cur) = 0
    /\ sweeper' = [pc |-> "stopped", now |-> 0, cur |-> 0, item |-> NoItem]
    /\ ret' = NoRet
    /\ UNCHANGED <<cache, ttl, stopCleanup, clock, ticker, clearing,
                   panicked, stops, quiet>>

\* cleanup, ForEach finds the end of the list; back to the select.
cleanupReturn ==
    /\ sweeper.pc = "next"
    /\ NextKey(cache, sweeper.cur) = 0
    /\ sweeper' = [pc |-> "select", now |-> 0, cur |-> 0, item |-> NoItem]
    /\ ret' = NoRet
    /\ UNCHANGED <<cache, ttl, stopCleanup, clock, ticker, clearing,
                   panicked, stops, quiet>>

\* Mutant of sweeperReturn: the stop case only leaves the select (a break in
\* place of the return), and the loop goes on.
sweeperBreak ==
    /\ sweeper.pc = "select"
    /\ stopCleanup = "closed"
    /\ sweeper' = [sweeper EXCEPT !.pc = "select"]
    /\ ticker' = ticker
    /\ ret' = NoRet
    /\ UNCHANGED <<cache, ttl, stopCleanup, clock, clearing, panicked,
                   stops, quiet>>

\* select, case <-c.stopCleanup: return, and the deferred ticker.Stop().
sweeperReturn ==
    /\ sweeper.pc = "select"
    /\ stopCleanup = "closed"
    /\ sweeper' = [sweeper EXCEPT !.pc = "stopped"]
    /\ ticker' = [ticker EXCEPT !.on = FALSE, !.next = 0]
    /\ ret' = NoRet
    /\ UNCHANGED <<cache, ttl, stopCleanup, clock, clearing, panicked,
                   stops, quiet>>

\* ------------------------------------------------------------- the clock
\* One unit of time passes; a running ticker whose instant has come puts a
\* tick in its one-slot channel (a tick found there already is dropped).
TickerAt(t) ==
    IF ticker.on /\ ticker.next = t
    THEN [ticker EXCEPT !.C = TRUE, !.next = t + ttl]
    ELSE ticker

AdvanceClock ==
    /\ clock < MaxTime
    /\ clock' = clock + 1
    /\ ticker' = TickerAt(clock + 1)
    /\ ret' = NoRet
    /\ UNCHANGED <<cache, ttl, stopCleanup, sweeper, clearing, panicked,
                   stops, quiet>>

\* The sweeper has nothing to do: it has returned, or it is blocked in the
\* select with no tick buffered and the channel open.
SweeperIdle ==
    \/ sweeper.pc = "stopped"
    \/ sweeper.pc = "select" /\ ~ticker.C /\ stopCleanup = "open"

\* ------------------------------------------------------- specifications
Alive == ~panicked

\* A step of the running process that is no step of the set/delete test.
Step(A) == Alive /\ A /\ UNCHANGED pending

\* Any interleaving of the foreground calls (from any number of callers), the
\* sweeper's steps and the clock.
Next ==
    \/ \E k \in Keys, v \in Values : Step(Set(k, v))
    \/ \E k \in Keys : Step(GetCall(k))
    \/ \E k \in Keys : Step(Delete(k))
    \/ \E c \in Callers : Step(ClearStart(c))
    \/ \E c \in Callers : Step(ClearNext(c))
    \/ \E c \in Callers : Step(ClearLambda(c))
    \/ \E c \in Callers : Step(ClearReturn(c))
    \/ Step(StopCleanup)
    \/ Step(startCleanupRoutine)
    \/ Step(cleanup)
    \/ Step(cleanupNext)
    \/ Step(cleanupLambda)
    \/ Step(cleanupReturn)
    \/ Step(sweeperReturn)
    \/ Step(AdvanceClock)

Spec == Init /\ [][Next]_vars

\* The sweeper keeps up with its ticker: time passes only while the sweeper
\* has nothing to do, so every tick is swept at the instant it fires.
NextTimed ==
    \/ \E k \in Keys, v \in Values : Step(Set(k, v))
    \/ \E k \in Keys : Step(GetCall(k))
    \/ \E k \in Keys : Step(Delete(k))
    \/ \E c \in Callers : Step(ClearStart(c))
    \/ \E c \in Callers : Step(ClearNext(c))
    \/ \E c \in Callers : Step(ClearLambda(c))
    \/ \E c \in Callers : Step(ClearReturn(c))
    \/ Step(StopCleanup)
    \/ Step(startCleanupRoutine)
    \/ Step(cleanup)
    \/ Step(cleanupNext)
    \/ Step(cleanupLambda)
    \/ Step(cleanupReturn)
    \/ Step(sweeperReturn)
    \/ Step(SweeperIdle /\ AdvanceClock)

SpecTimed == Init /\ [][NextTimed]_vars

\* Fair scheduling of the sweeper goroutine: outside the select it always has
\* a step to take, and takes it; the select, which picks at random among its
\* ready cases, does not pass over the ready stop case for ever.
SweeperFair ==
    /\ WF_vars(\/ Step(startCleanupRoutine)
               \/ Step(cleanupNext)
               \/ Step(cleanupLambda)
               \/ Step(cleanupReturn))
    /\ SF_vars(Step(sweeperReturn))

SpecFair == Init /\ [][Next]_vars /\ SweeperFair

\* TestCacheConcurrentSetAndDeleteAsync: n goroutines Set(key, value) and n
\* goroutines Delete(key), in any order; when all are done, Get(key).
RaceKey == 1
RaceValue == 1

InitRace ==
    /\ NewCache
    /\ \E n \in 1..MaxGoroutines : pending = [set |-> n, del |-> n, clear |-> 0]

RaceSet ==
    /\ Alive
    /\ pending.set > 0
    /\ Set(RaceKey, RaceValue)
    /\ pending' = [pending EXCEPT !.set = @ - 1]

RaceDelete ==
    /\ Alive
    /\ pending.del > 0
    /\ Delete(RaceKey)
    /\ pending' = [pending EXCEPT !.del = @ - 1]

RaceGet ==
    /\ Alive
    /\ pending = [set |-> 0, del |-> 0, clear |-> 0]
    /\ GetCall(RaceKey)
    /\ UNCHANGED pending

NextRace ==
    \/ RaceSet
    \/ RaceDelete
    \/ RaceGet
    \/ Step(startCleanupRoutine)
    \/ Step(cleanup)
    \/ Step(cleanupNext)
    \/ Step(cleanupLambda)
    \/ Step(cleanupReturn)
    \/ Step(AdvanceClock)

SpecRace == InitRace /\ [][NextRace]_vars

\* A Clear() racing with one Set(key, value): some keys are written, a
\* goroutine calls Clear(), and while that call is in flight another
\* goroutine calls Set(key, value) once.
InitClear ==
    /\ NewCache
    /\ pending = [set |-> 1, del |-> 0, clear |-> 1]

FillSet ==
    /\ pending.clear > 0
    /\ \E k \in Keys, v \in Values : Step(Set(k, v))

ClearCall ==
    /\ Alive
    /\ pending.clear > 0
    /\ \E c \in Callers : ClearStart(c)
    /\ pending' = [pending EXCEPT !.clear = @ - 1]

ClearRaceSet ==
    /\ \E c \in Callers : clearing[c].pc # "idle"
    /\ RaceSet

NextClear ==
    \/ FillSet
    \/ ClearCall
    \/ ClearRaceSet
    \/ \E c \in Callers : Step(ClearNext(c))
    \/ \E c \in Callers : Step(ClearLambda(c))
    \/ \E c \in Callers : Step(ClearReturn(c))
    \/ Step(startCleanupRoutine)
    \/ Step(cleanup)
    \/ Step(cleanupNext)
    \/ Step(cleanupLambda)
    \/ Step(cleanupReturn)
    \/ Step(AdvanceClock)

SpecClear == InitClear /\ [][NextClear]_vars

\* TestCacheSetAndGet with every call free to run: one key is written, no
\* other key ever is, and all other calls are made on every key.
NextOneKey ==
    \/ \E v \in Values : Step(Set(RaceKey, v))
    \/ \E k \in Keys : Step(GetCall(k))
    \/ \E k \in Keys : Step(Delete(k))
    \/ \E c \in Callers : Step(ClearStart(c))
    \/ \E c \in Callers : Step(ClearNext(c))
    \/ \E c \in Callers : Step(ClearLambda(c))
    \/ \E c \in Callers : Step(ClearReturn(c))
    \/ Step(StopCleanup)
    \/ Step(startCleanupRoutine)
    \/ Step(cleanup)
    \/ Step(cleanupNext)
    \/ Step(cleanupLambda)
    \/ Step(cleanupReturn)
    \/ Step(sweeperReturn)
    \/ Step(AdvanceClock)

SpecOneKey == Init /\ [][NextOneKey]_vars

\* ------------------------------------------------------------ properties
\* C1. Write-then-read: a Set(k, v) leaves Get(k) = (v, true), and Get(k) of a
\* present key keeps its result across every step that is not a Set(k, .), a
\* Delete(k), a Clear removal of k or a sweep visit of k.
C1_WriteThenRead ==
    [][\A k \in Keys :
        /\ (ret'.op = "Set" /\ ret'.key = k) => Get(k)' = <<ret'.val, TRUE>>
        /\ ( /\ k \in DOMAIN cache
             /\ ~(ret'.op = "Set" /\ ret'.key = k)
             /\ ~(ret'.op = "Delete" /\ ret'.key = k)
             /\ ~(\E c \in Callers : ClearLambda(c) /\ clearing[c].cur = k)
             /\ ~(cleanupLambda /\ sweeper.cur = k) )
           => Get(k)' = Get(k)]_vars

\* A Get at a later instant reads the value written, with a Clear in flight
\* that has not reached the key.
C1_Witness ==
    /\ ret = Ret("Get", 2, 1, TRUE)
    /\ cache[2].CreatedTime < clock
    /\ clearing[1].pc = "next"

C3_BoundedEviction ==
    [][\A k \in Keys :
        /\ (cleanupLambda /\ k \in DOMAIN cache /\ k \notin DOMAIN cache')
           => clock >= cache[k].CreatedTime + ttl
        /\ (stopCleanup' = "open" /\ k \in DOMAIN cache')
           => clock' <= cache'[k].CreatedTime + 2 * ttl]_vars

\* The upper half of C3 alone: the latest instant an entry is in the store.
C3_EvictedByTwiceTTL ==
    \A k \in DOMAIN cache :
        stopCleanup = "open" => clock <= cache[k].CreatedTime + 2 * ttl

\* C4. Each StopCleanup call leaves the store as it was; the first closes the
\* channel without a panic, and a call that finds the channel closed panics.
C4_DoubleStopFatal ==
    [][stops' = stops + 1 =>
        /\ cache' = cache
        /\ IF stopCleanup = "closed"
           THEN panicked'
           ELSE stopCleanup' = "closed" /\ ~panicked']_vars

\* A second StopCleanup has panicked, with an entry in the store.
C4_Witness ==
    /\ stops = 2
    /\ panicked
    /\ ret.op = "StopCleanup"
    /\ DOMAIN cache # {}

\* C5. A Delete(k) leaves Get(k) = (zero, false), and an absent key stays
\* absent across every step that is not a Set(k, .).
C5_Delete ==
    [][\A k \in Keys :
        /\ (ret'.op = "Delete" /\ ret'.key = k) => Get(k)' = <<zero, FALSE>>
        /\ (Get(k) = <<zero, FALSE>> /\ ~(ret'.op = "Set" /\ ret'.key = k))
           => Get(k)' = <<zero, FALSE>>]_vars

\* A Delete has just removed a key whose expired item the sweeper is visiting.
C5_Witness ==
    /\ ret = Ret("Delete", 1, zero, FALSE)
    /\ sweeper.pc = "lambda" /\ sweeper.cur = 1
    /\ Expired(sweeper.now, sweeper.item)
    /\ Get(1) = <<zero, FALSE>>

\* C6. When a caller's Clear has returned and no Set ran since that Clear
\* started, Get finds no key at all.
C6_Clear ==
    \A c \in Callers :
        (clearing[c].pc = "idle" /\ quiet[c])
        => \A k \in Keys : Get(k) = <<zero, FALSE>>

\* A Clear with no Set beside it has just returned while the sweeper is in
\* the middle of a pass, holding an item it loaded.
C6_Witness ==
    /\ ret = Ret("Clear", 1, zero, FALSE)
    /\ quiet[1]
    /\ sweeper.pc = "lambda"
    /\ cache = [k \in {} |-> NoItem]

\* C7. A Set(k, v) leaves Get(k) = (v, true) and leaves the item of every
\* other key as it was: writers on disjoint keys lose no write.
C7_DisjointWriters ==
    [][\A k \in Keys :
        (ret'.op = "Set" /\ ret'.key = k) =>
            /\ Get(k)' = <<ret'.val, TRUE>>
            /\ \A j \in Keys \ {k} :
                  /\ (j \in DOMAIN cache) = (j \in DOMAIN cache')
                  /\ j \in DOMAIN cache => cache'[j] = cache[j]]_vars

\* Two keys written at the same instant are both in the store.
C7_Witness ==
    /\ ret = Ret("Set", 2, 1, FALSE)
    /\ DOMAIN cache = {1, 2}
    /\ cache[1].CreatedTime = cache[2].CreatedTime
    /\ cache[1].Value = zero

\* C8. In the set/delete test, the final Get returns (zero, false) or the
\* value the setters wrote with true: the outcome of some order of the calls.
C8_SetDeleteLinearizable ==
    ret.op = "Get" =>
        <<ret.val, ret.ok>> \in {<<zero, FALSE>>, <<RaceValue, TRUE>>}

\* The final Get of the test finds the value, all goroutines being done.
C8_Witness ==
    /\ ret = Ret("Get", RaceKey, RaceValue, TRUE)
    /\ pending = [set |-> 0, del |-> 0, clear |-> 0]

\* C9 as stated. In the set/delete test, the final Get finds nothing.
C9_FinalGetFindsNothing ==
    (ret.op = "Get" /\ pending = [set |-> 0, del |-> 0, clear |-> 0])
        => ~ret.ok

\* C10. A Get returns found exactly when the key is in the store, with the
\* stored value, whatever the clock says.
C10_GetIgnoresTTL ==
    ret.op = "Get" =>
        /\ ret.ok = (ret.key \in DOMAIN cache)
        /\ ret.ok => ret.val = cache[ret.key].Value
        /\ ~ret.ok => ret.val = zero

\* A Get has found an item older than ttl that no sweep has removed yet.
C10_Witness ==
    /\ ret.op = "Get" /\ ret.ok
    /\ Expired(clock, cache[ret.key])
    /\ sweeper.pc = "select" /\ stopCleanup = "open"

\* C11. The first StopCleanup returns while the sweeper has not returned;
\* under fair scheduling, once the channel is closed the sweeper reaches
\* "stopped", from the select or from the middle of a pass (or the process
\* dies of a second StopCleanup, and the goroutine with it).
C11_StopSignalsThenSweeperStops ==
    /\ []((ret.op = "StopCleanup" /\ stops = 1) => sweeper.pc # "stopped")
    /\ (stopCleanup = "closed") ~> (sweeper.pc = "stopped" \/ panicked)

\* StopCleanup has just returned while the sweeper holds an item it loaded
\* in the middle of a pass.
C11_Witness ==
    /\ ret.op = "StopCleanup" /\ stops = 1
    /\ sweeper.pc = "lambda"

\* C12. A Clear and one Set(k, v) that ran while it was in flight have both
\* returned: k is absent or holds v, and no other key is in the store.
C12_ClearRacingSet ==
    ( /\ pending = [set |-> 0, del |-> 0, clear |-> 0]
      /\ \A c \in Callers : clearing[c].pc = "idle" )
    => /\ Get(RaceKey) \in {<<zero, FALSE>>, <<RaceValue, TRUE>>}
       /\ \A j \in Keys \ {RaceKey} : Get(j) = <<zero, FALSE>>

\* The Set survives: Clear returns after the Set, and the value is there.
C12_Witness ==
    /\ ret = Ret("Clear", 1, zero, FALSE)
    /\ pending = [set |-> 0, del |-> 0, clear |-> 0]
    /\ Get(RaceKey) = <<RaceValue, TRUE>>

\* The Set is wiped: at an instant when nothing can have expired, Clear
\* returns after the Set and the key is absent.
C12_WipedWitness ==
    /\ ret = Ret("Clear", 1, zero, FALSE)
    /\ pending = [set |-> 0, del |-> 0, clear |-> 0]
    /\ clock = 0
    /\ Get(RaceKey) = <<zero, FALSE>>

\* C13. A key no Set was ever called on is absent in every state, and every
\* Get of it returns (zero, false), whatever is done to the key beside it.
C13_Absence ==
    \A k \in Keys \ {RaceKey} :
        /\ Get(k) = <<zero, FALSE>>
        /\ (ret.op = "Get" /\ ret.key = k) => (ret.val = zero /\ ~ret.ok)

\* Get of the unwritten key returns while the written key is in the store,
\* a Clear is in flight and the sweeper is visiting the written key.
C13_Witness ==
    /\ ret = Ret("Get", 2, zero, FALSE)
    /\ Get(RaceKey) = <<1, TRUE>>
    /\ clearing[1].pc = "next"
    /\ sweeper.pc = "lambda"

\* C14. A Delete(k) leaves k absent, leaves every other key in or out of the
\* store as it was and with the item (value and CreatedTime) it had, leaves
\* the whole store as it was when k was absent, and raises no error.
C14_DeleteFrame ==
    [][\A k \in Keys :
        (ret'.op = "Delete" /\ ret'.key = k) =>
            /\ k \notin DOMAIN cache'
            /\ \A j \in Keys \ {k} :
                  /\ (j \in DOMAIN cache) = (j \in DOMAIN cache')
                  /\ j \in DOMAIN cache => cache'[j] = cache[j]
            /\ k \notin DOMAIN cache => cache' = cache
            /\ panicked' = panicked]_vars

\* Delete(2) has removed its key; the entry of key 1, written earlier, is
\* still there while the sweeper is in a pass.
C14_Witness ==
    /\ ret = Ret("Delete", 2, zero, FALSE)
    /\ 1 \in DOMAIN cache /\ cache[1].CreatedTime < clock
    /\ sweeper.pc = "next"

\* C15. The sweep removes the entry stored for a key only when that entry's
\* own age, at the instant the pass captured, exceeds ttl.
C15_SweepEvictsOnlyExpired ==
    [][\A k \in Keys :
        ( /\ cleanupLambda /\ sweeper.cur = k
          /\ k \in DOMAIN cache /\ k \notin DOMAIN cache' )
        => Expired(sweeper.now, cache[k])]_vars

C17_Overwrite ==
    [][\A k \in Keys :
        /\ (ret'.op = "Set" /\ ret'.key = k /\ k \in DOMAIN cache)
           => /\ cache'[k] = [Value |-> ret'.val, CreatedTime |-> clock]
              /\ Get(k)' = <<ret'.val, TRUE>>
        /\ (cleanupLambda /\ sweeper.cur = k /\ Get(k)[2] /\ ~Get(k)'[2])
           => sweeper.now - cache[k].CreatedTime > ttl]_vars

\* The part of C17 about the write alone: a Set on a stored key replaces the
\* entry wholesale, whatever the sweeper or a Clear is doing.
C17_OverwriteReplaces ==
    [][\A k \in Keys :
        (ret'.op = "Set" /\ ret'.key = k /\ k \in DOMAIN cache)
        => /\ cache'[k] = [Value |-> ret'.val, CreatedTime |-> clock]
           /\ Get(k)' = <<ret'.val, TRUE>>
           /\ DOMAIN cache' = DOMAIN cache]_vars

\* C18. The cache's one sweeper goroutine is running (about to start, in the
\* select or in a pass) or stopped; it is stopped only with the channel
\* closed, it becomes stopped only by the stop case of its select, and once
\* stopped it has no step left and its ticker is off.
C18_SweeperLifecycle ==
    /\ [](sweeper.pc \in {"start", "select", "next", "lambda", "stopped"})
    /\ [](sweeper.pc = "stopped" =>
            /\ stopCleanup = "closed"
            /\ ~ticker.on
            /\ ~ENABLED (\/ startCleanupRoutine \/ cleanup \/ cleanupNext
                         \/ cleanupLambda \/ cleanupReturn \/ sweeperReturn))
    /\ [][(sweeper.pc # "stopped" /\ sweeper'.pc = "stopped")
           => (sweeperReturn /\ stopCleanup = "closed")]_vars
    /\ [][sweeper.pc = "stopped" => sweeper' = sweeper]_vars

\* The sweeper has returned, the clock has run to its end past an entry's
\* expiry, and the cache is still written to.
C18_Witness ==
    /\ sweeper.pc = "stopped"
    /\ clock = MaxTime
    /\ ret.op = "Set"
    /\ \E k \in DOMAIN cache : Expired(clock, cache[k])

\* C19. While the process is alive, a Set, a Get and a Delete of every key
\* can take their (single) step whatever the sweeper is doing; and with the
\* sweeper stopped Set, Get and Delete have their usual results and a Clear
\* with no Set beside it leaves the store empty.
C19_ForegroundNeverWaits ==
    /\ [](Alive => \A k \in Keys :
                      /\ ENABLED Step(GetCall(k))
                      /\ ENABLED Step(Delete(k))
                      /\ \A v \in Values : ENABLED Step(Set(k, v)))
    /\ [][sweeper.pc = "stopped" => \A k \in Keys :
            /\ (ret'.op = "Set" /\ ret'.key = k)
               => Get(k)' = <<ret'.val, TRUE>>
            /\ (ret'.op = "Get" /\ ret'.key = k)
               => (<<ret'.val, ret'.ok>> = Get(k) /\ cache' = cache)
            /\ (ret'.op = "Delete" /\ ret'.key = k)
               => Get(k)' = <<zero, FALSE>>]_vars
    /\ [](sweeper.pc = "stopped" =>
            \A c \in Callers :
                (clearing[c].pc = "idle" /\ quiet[c]) => DOMAIN cache = {})

\* A Set of the key the sweeper is visiting has returned in the middle of the
\* visit, after StopCleanup was called.
C19_Witness ==
    /\ ret.op = "Set"
    /\ sweeper.pc = "lambda" /\ sweeper.cur = ret.key
    /\ stopCleanup = "closed"

\* C20. Once the sweeper goroutine has returned, every step that changes the
\* store is a Set, a Delete or a removal by a Clear; and a Get or a
\* StopCleanup, in any state, leaves the store as it is.
C20_StoreChangesOnlyByCalls ==
    /\ [][(sweeper.pc = "stopped" /\ cache' # cache)
           => \/ ret'.op \in {"Set", "Delete"}
              \/ \E c \in Callers : ClearLambda(c)]_vars
    /\ [][ret'.op \in {"Get", "StopCleanup"} => cache' = cache]_vars

\* With the sweeper returned, a further StopCleanup has been called and an
\* entry past its ttl is still in the store.
C20_Witness ==
    /\ sweeper.pc = "stopped"
    /\ ret.op = "StopCleanup"
    /\ \E k \in DOMAIN cache : Expired(clock, cache[k])

====
